---------------------------- MODULE Spec2Model ----------------------------
(***************************************************************************)
(* A model of bk (src/main.go): the bookmark store (loadConfig/saveConfig  *)
(* over encoding/json), the usage sort, the filter, the selector's key     *)
(* handler model.Update, the add command, and processes sharing one store. *)
(*                                                                         *)
(* A Go string is the sequence of its bytes.  Go slices are 0-based and     *)
(* TLA+ sequences 1-based: cursor and the elements of filtered keep the Go *)
(* (0-based) values, and a Go index i is read as element i+1.              *)
(***************************************************************************)
EXTENDS Integers, Sequences, FiniteSets, TLC

VARIABLES
    disk,          \* the document at getConfigPath()
    pc,            \* the process: "start", "running", "quit" (tea.Quit returned), "exited"
    bookmarks,     \* model.bookmarks
    filtered,      \* model.filtered (Go indices into bookmarks)
    cursor,        \* model.cursor (Go index into filtered)
    filter,        \* model.filter
    editing,       \* model.editing
    editValue,     \* model.editValue
    selectedPath,  \* model.selectedPath
    stdout,        \* the lines the process has printed to standard output
    io,            \* the saveConfig call of the last operation, if it made one
    nkeys,         \* the number of key messages Update has handled
    lastKey,       \* history: the last key message Update handled
    quitKey,       \* history: the last key message handled before any returned tea.Quit
    typed,         \* history: the key messages handled in edit mode since it was entered
    entry,         \* history: bookmarks, disk and the selected index when edit mode was entered
    arg,           \* the input of the operation under test (sort, round trip, load, add)
    res            \* its result

vars == <<disk, pc, bookmarks, filtered, cursor, filter, editing, editValue,
          selectedPath, stdout, io, nkeys, lastKey, quitKey, typed, entry, arg, res>>

----------------------------------------------------------------------------
(* Bounds of the model. *)

\* The number of key messages one selector session handles.
MaxKeys == 4

----------------------------------------------------------------------------
(* Strings and bytes.  A Go string is a sequence of bytes, and so is a string
   of the model: an ASCII character is one element, a character beyond ASCII
   is the elements of its UTF-8 encoding. *)

\* A byte that is not valid UTF-8 wherever it stands (a Linux path or a line
\* of input may hold one).
InvalidByte == "\\xff"
\* The UTF-8 encoding of U+FFFD, utf8.RuneError, which Go puts in place of
\* an invalid byte.
RuneError == <<"\\xef", "\\xbf", "\\xbd">>
\* The UTF-8 encoding of U+00E9, a character of two bytes.
EAcute == <<"\\xc3", "\\xa9">>
\* The continuation bytes of those encodings.
ContinuationBytes == {"\\xa9", "\\xbf", "\\xbd"}
\* The escape of U+FFFD (backslash, u, f, f, f, d: six bytes) in the text of
\* a JSON string.
EscapedRuneError == "\\ufffd"

\* c < utf8.RuneSelf
IsASCII(c) == c \notin {InvalidByte, "\\xc3", "\\xef", EscapedRuneError} \cup ContinuationBytes

\* s[lo..hi] in TLA+ indices, empty when hi < lo: the bytes of a string, or
\* the elements of a slice.
Slice(s, lo, hi) == [i \in 1..(hi - lo + 1) |-> s[lo + i - 1]]

\* The width utf8.DecodeRuneInString(s) returns for a non-empty s: that of
\* the encoding s starts with, 1 for an ASCII byte and for an invalid one.
RuneWidth(s) ==
    CASE s[1] = "\\xc3" /\ Len(s) >= 2 /\ s[2] \in ContinuationBytes -> 2
      [] s[1] = "\\xef" /\ Len(s) >= 3 /\ s[2] \in ContinuationBytes
                        /\ s[3] \in ContinuationBytes -> 3
      [] OTHER -> 1

\* Whether a non-empty s starts with a byte that is no part of a valid
\* encoding (DecodeRuneInString returns RuneError and the width 1).
InvalidHead(s) == ~IsASCII(s[1]) /\ RuneWidth(s) = 1

\* s decoded rune by rune, each invalid byte replaced by repl.
RECURSIVE ReplaceInvalid(_, _)
ReplaceInvalid(s, repl) ==
    IF s = <<>> THEN <<>>
    ELSE IF InvalidHead(s) THEN repl \o ReplaceInvalid(Tail(s), repl)
    ELSE Slice(s, 1, RuneWidth(s))
         \o ReplaceInvalid(Slice(s, RuneWidth(s) + 1, Len(s)), repl)

\* What Go makes of a string it decodes and encodes again (strings.Map,
\* and encoding/json reading a string): an invalid byte becomes U+FFFD.
CoerceUTF8(s) == ReplaceInvalid(s, RuneError)

\* unicode.ToLower on the characters of the model.
ToLowerChar(c) ==
    CASE c = "W" -> "w"
      [] c = "X" -> "x"
      [] c = "Y" -> "y"
      [] OTHER -> c

\* strings.ToLower: strings.Map(unicode.ToLower, s), which writes U+FFFD for
\* an invalid byte; no character beyond ASCII of the model has another
\* lower-case form.
ToLower(s) == LET t == CoerceUTF8(s) IN [i \in 1..Len(t) |-> ToLowerChar(t[i])]

\* strings.Contains(s, substr): some offset at which substr occurs.
Contains(s, substr) ==
    \E off \in 0..(Len(s) - Len(substr)) :
        \A i \in 1..Len(substr) : s[off + i] = substr[i]

\* strings.TrimSpace on the characters of the model: leading and trailing
\* spaces and line ends are cut.
IsSpace(c) == c \in {" ", "\n"}

RECURSIVE TrimLeft(_)
TrimLeft(s) ==
    IF s # <<>> /\ IsSpace(Head(s)) THEN TrimLeft(Tail(s)) ELSE s

RECURSIVE TrimRight(_)
TrimRight(s) ==
    IF s # <<>> /\ IsSpace(s[Len(s)]) THEN TrimRight(Slice(s, 1, Len(s) - 1)) ELSE s

TrimSpace(s) == TrimRight(TrimLeft(s))

\* The runes of the model beyond ASCII, by name, and string(runes): the
\* UTF-8 encodings of the runes one after another.
RuneEAcute == "U+00E9"
EncodeRune(r) == IF r = RuneEAcute THEN EAcute ELSE <<r>>
RECURSIVE String(_)
String(runes) ==
    IF runes = <<>> THEN <<>> ELSE EncodeRune(Head(runes)) \o String(Tail(runes))

----------------------------------------------------------------------------
(* The store: Bookmark, Config, encoding/json, loadConfig, saveConfig. *)

\* type Bookmark struct { Path, Name string; Count int }
Bookmark(path, name, count) == [Path |-> path, Name |-> name, Count |-> count]

\* The zero value of Bookmark.
ZeroBookmark == Bookmark(<<>>, <<>>, 0)

\* encoding/json writing a string (appendString): a valid encoding is
\* written as it is, an invalid byte as the escape of U+FFFD.
quote(s) == ReplaceInvalid(s, <<EscapedRuneError>>)

\* The escapes of a JSON string resolved.
RECURSIVE Unescape(_)
Unescape(v) ==
    IF v = <<>> THEN <<>>
    ELSE (IF Head(v) = EscapedRuneError THEN RuneError ELSE <<Head(v)>>) \o Unescape(Tail(v))

\* encoding/json reading a string (unquote): escapes are resolved and an
\* invalid byte becomes U+FFFD.
unquote(v) == CoerceUTF8(Unescape(v))

\* JSON values of the model: a string (v is the text between the quotes), a
\* number, or no member at all.
JStr(s) == [t |-> "string", v |-> s]
JNum(n) == [t |-> "number", v |-> n]
JAbsent == [t |-> "absent", v |-> 0]

\* A JSON object with the members of a Bookmark, and an array element that is
\* no object.
JObject(path, name, count) == [t |-> "object", path |-> path, name |-> name, count |-> count]
JScalar == [t |-> "scalar", path |-> JAbsent, name |-> JAbsent, count |-> JAbsent]

\* The length in bytes of a document as json.MarshalIndent(config, "", "  ")
\* lays it out: the text of a string, a number, a member on its line, an
\* array element, the whole document.
RECURSIVE ByteLen(_)
ByteLen(v) ==
    IF v = <<>> THEN 0
    ELSE (IF Head(v) = EscapedRuneError THEN 6 ELSE 1) + ByteLen(Tail(v))

RECURSIVE Digits(_)
Digits(n) == IF n < 10 THEN 1 ELSE 1 + Digits(n \div 10)

ValueSize(j) ==
    CASE j.t = "string" -> ByteLen(j.v) + 2
      [] j.t = "number" -> Digits(j.v)
      [] OTHER -> 0

\* Six spaces, the key in quotes, a colon and a space, the value, the line end.
MemberSize(key, j) == IF j.t = "absent" THEN 0 ELSE 6 + (key + 4) + ValueSize(j) + 1

ElementSize(e) ==
    LET present == Cardinality({m \in {"path", "name", "count"} : e[m].t # "absent"})
    IN  IF e.t = "object"
        THEN 6 + MemberSize(4, e.path) + MemberSize(4, e.name) + MemberSize(5, e.count)
               + (IF present > 0 THEN present - 1 ELSE 0) + 5
        ELSE 5

RECURSIVE ElementsSize(_)
ElementsSize(recs) ==
    IF recs = <<>> THEN 0 ELSE ElementSize(Head(recs)) + ElementsSize(Tail(recs))

JSONSize(recs) ==
    IF recs = <<>> THEN 21
    ELSE 19 + ElementsSize(recs) + 2 * (Len(recs) - 1) + 1 + 5

\* The documents: their parsed content and their length in bytes.
Doc(kind, recs, size) == [kind |-> kind, recs |-> recs, size |-> size]
\* No readable file.
DocMissing == Doc("missing", <<>>, 0)
\* A file of no bytes.
DocEmpty == Doc("syntax", <<>>, 0)
\* Text that is not valid JSON: recs are the well-formed records before the
\* point where the text breaks, and the text is as long as their document.
DocSyntax(recs) == Doc("syntax", recs, JSONSize(recs))
\* Valid JSON {"bookmarks": [...]}.
DocJSON(recs) == Doc("json", recs, JSONSize(recs))

\* json.Marshal of one Bookmark: path, name (omitempty), count.
MarshalBookmark(b) ==
    JObject(JStr(quote(b.Path)),
            IF b.Name = <<>> THEN JAbsent ELSE JStr(quote(b.Name)),
            JNum(b.Count))

\* json.MarshalIndent(config, "", "  ")
Marshal(bs) == DocJSON([i \in 1..Len(bs) |-> MarshalBookmark(bs[i])])

\* Unmarshal of one member into a string field: a JSON string is stored, a
\* value of another type is an UnmarshalTypeError and the field is skipped.
StringField(j) == IF j.t = "string" THEN unquote(j.v) ELSE <<>>
\* Unmarshal of one member into an int field.
IntField(j) == IF j.t = "number" THEN j.v ELSE 0

\* Unmarshal of one array element into a Bookmark: an element that is no
\* object is an UnmarshalTypeError and leaves the zero Bookmark in the slice.
UnmarshalBookmark(e) ==
    IF e.t = "object"
    THEN Bookmark(StringField(e.path), StringField(e.name), IntField(e.count))
    ELSE ZeroBookmark

\* Whether json.Unmarshal of one element reports an UnmarshalTypeError.
ElementTypeError(e) ==
    \/ e.t # "object"
    \/ e.path.t = "number"
    \/ e.name.t = "number"
    \/ e.count.t = "string"

\* Whether json.Unmarshal(data, &config) returns an error: the syntax check
\* of the whole text fails, or some value has the wrong type.
UnmarshalError(doc) ==
    \/ doc.kind = "syntax"
    \/ doc.kind = "json" /\ \E i \in 1..Len(doc.recs) : ElementTypeError(doc.recs[i])

\* json.Unmarshal(data, &config) into the zero Config: a syntax error is
\* found by checkValid before anything is stored; after a type error decoding
\* goes on and everything else is stored.
Unmarshal(doc) ==
    IF doc.kind = "json"
    THEN [i \in 1..Len(doc.recs) |-> UnmarshalBookmark(doc.recs[i])]
    ELSE <<>>

\* Whether the document failed to load: os.ReadFile failed or the parse did.
LoadFailed(doc) == doc.kind = "missing" \/ UnmarshalError(doc)

\* loadConfig: the error of json.Unmarshal is dropped and config returned.
loadConfig(doc) ==
    IF doc.kind = "missing" THEN <<>> ELSE Unmarshal(doc)

\* The outcomes of saveConfig(config): "ok" writes the marshalled list;
\* "error" is MkdirAll or the open failing, the document untouched;
\* "truncated" is the write failing after the open has emptied the file.
SaveOutcomes == {"ok", "error", "truncated"}

\* Mutant of OpenFile: the open leaves the text of the file in place.
OpenFile_NoTrunc(doc, outcome) == doc

\* saveConfig up to and with the open of os.WriteFile, which is
\* OpenFile(name, O_WRONLY|O_CREATE|O_TRUNC, perm): the file is emptied.
OpenFile(doc, outcome) == IF outcome = "error" THEN doc ELSE DocEmpty

\* The rest of os.WriteFile, f.Write(data) and f.Close(), on the file as it
\* is by then: the bytes of data go to offset 0, and when another process has
\* written a longer text since the open, the end of that text stays behind
\* the data and the file is no valid JSON.
Write(doc, bs, outcome) ==
    LET data == Marshal(bs)
    IN  IF outcome # "ok" THEN doc
        ELSE IF doc.size <= data.size THEN data
        ELSE Doc("syntax", data.recs, doc.size)

\* saveConfig(config) with no other process at the file.
saveConfig(doc, bs, outcome) == Write(OpenFile(doc, outcome), bs, outcome)

\* The saveConfig call of an operation: its argument, its outcome, and
\* whether it has opened the file and not yet written it.
NoSave == [saved |-> FALSE, arg |-> <<>>, outcome |-> "none", open |-> FALSE]
Saved(bs, outcome) ==
    [saved |-> TRUE, arg |-> bs, outcome |-> outcome, open |-> outcome # "error"]

----------------------------------------------------------------------------
(* sortBookmarks: sort.Slice, which is pdqsort_func of package sort.  Indices
   a, b, i, j are Go's: data[i] is d[i + 1], and ranges are [a, b).  The model
   sorts slices of up to MaxSortLen elements: above maxInsertion one
   partition step leaves two ranges that insertion sort finishes. *)

\* const maxInsertion = 12 of pdqsort_func.
maxInsertion == 12
\* The longest slice the model sorts.
MaxSortLen == maxInsertion + 1

\* Mutant of Less: the comparison turned around, the least used first.
Less_Ascending(d, i, j) == d[i + 1].Count < d[j + 1].Count

\* The less function of sortBookmarks: bookmarks[i].Count > bookmarks[j].Count
Less(d, i, j) == d[i + 1].Count > d[j + 1].Count

\* data.Swap(i, j)
Swap(d, i, j) == [d EXCEPT ![i + 1] = d[j + 1], ![j + 1] = d[i + 1]]

\* The inner loop of insertionSort_func: for j := i; j > a && Less(j, j-1); j--
RECURSIVE InsertDown(_, _, _)
InsertDown(d, a, j) ==
    IF j > a /\ Less(d, j, j - 1) THEN InsertDown(Swap(d, j, j - 1), a, j - 1) ELSE d

\* The outer loop of insertionSort_func: for i := a + 1; i < b; i++
RECURSIVE InsertFrom(_, _, _, _)
InsertFrom(d, a, b, i) ==
    IF i < b THEN InsertFrom(InsertDown(d, a, i), a, b, i + 1) ELSE d

insertionSort(d, a, b) == InsertFrom(d, a, b, a + 1)

\* order2_func: the pair in order, and whether it was swapped.
Order2(d, a, b) ==
    IF Less(d, b, a) THEN [a |-> b, b |-> a, swaps |-> 1] ELSE [a |-> a, b |-> b, swaps |-> 0]

\* median_func: the index of the median of data[a], data[b], data[c], and the
\* number of swaps made to find it.
Median(d, a, b, c) ==
    LET o1 == Order2(d, a, b)
        o2 == Order2(d, o1.b, c)
        o3 == Order2(d, o1.a, o2.a)
    IN  [pivot |-> o3.b, swaps |-> o1.swaps + o2.swaps + o3.swaps]

\* choosePivot_func for 8 <= b - a < shortestNinther: the median of the
\* elements at the quarter points; the hint is increasing when nothing was
\* swapped (maxSwaps = 12 is out of reach of three comparisons).
choosePivot(d, a, b) ==
    LET l == b - a
        m == Median(d, a + (l \div 4) * 1, a + (l \div 4) * 2, a + (l \div 4) * 3)
    IN  [pivot |-> m.pivot, increasing |-> m.swaps = 0]

\* partialInsertionSort_func for b - a < shortestShifting: true when the
\* range is already sorted, and nothing is moved otherwise.
partialInsertionSort(d, a, b) ==
    \A i \in (a + 1)..(b - 1) : ~Less(d, i, i - 1)

\* for i <= j && less(data[i], data[a]) { i++ }
RECURSIVE ScanUp(_, _, _, _)
ScanUp(d, a, i, j) ==
    IF i <= j /\ Less(d, i, a) THEN ScanUp(d, a, i + 1, j) ELSE i

\* for i <= j && !less(data[j], data[a]) { j-- }
RECURSIVE ScanDown(_, _, _, _)
ScanDown(d, a, i, j) ==
    IF i <= j /\ ~Less(d, j, a) THEN ScanDown(d, a, i, j - 1) ELSE j

\* The main loop of partition_func, ending with data.Swap(j, a).
RECURSIVE PartitionLoop(_, _, _, _)
PartitionLoop(d, a, i0, j0) ==
    LET i == ScanUp(d, a, i0, j0)
        j == ScanDown(d, a, i, j0)
    IN  IF i > j
        THEN [data |-> Swap(d, j, a), mid |-> j]
        ELSE PartitionLoop(Swap(d, i, j), a, i + 1, j - 1)

\* partition_func(data, a, b, pivot): the pivot is swapped to data[a], the
\* rest is partitioned around it, and the pivot is swapped to its place.
partition(d0, a, b, pivot) ==
    LET d == Swap(d0, a, pivot)
        i == ScanUp(d, a, a + 1, b - 1)
        j == ScanDown(d, a, i, b - 1)
    IN  IF i > j
        THEN [data |-> Swap(d, j, a), mid |-> j]
        ELSE PartitionLoop(Swap(d, i, j), a, i + 1, j - 1)

\* pdqsort_func(data, 0, n, bits.Len(n)) for n <= MaxSortLen.
pdqsort(d) ==
    LET n == Len(d) IN
    IF n <= maxInsertion THEN insertionSort(d, 0, n)
    ELSE LET c == choosePivot(d, 0, n) IN
         IF c.increasing /\ partialInsertionSort(d, 0, n) THEN d
         ELSE LET p == partition(d, 0, n, c.pivot)
              IN  insertionSort(insertionSort(p.data, 0, p.mid), p.mid + 1, n)

\* sortBookmarks(bookmarks)
sortBookmarks(bs) == pdqsort(bs)

----------------------------------------------------------------------------
(* filterBookmarks *)

\* The loop of filterBookmarks over bookmarks[i..]: the indices (Go's) of
\* the records whose lower-cased name or path contains the lower-cased filter.
RECURSIVE FilterFrom(_, _, _)
FilterFrom(bs, f, i) ==
    IF i >= Len(bs) THEN <<>>
    ELSE LET name == ToLower(bs[i + 1].Name)
             path == ToLower(bs[i + 1].Path)
             rest == FilterFrom(bs, f, i + 1)
         IN  IF Contains(name, f) \/ Contains(path, f) THEN <<i>> \o rest ELSE rest

filterBookmarks(bs, f) ==
    IF f = <<>> THEN [i \in 1..Len(bs) |-> i - 1]
    ELSE FilterFrom(bs, ToLower(f), 0)

----------------------------------------------------------------------------
(* The selector: initialModel, model.Update, main. *)

\* tea.KeyMsg: its Type and, for KeyRunes, its Runes.
KeyMsg(type, runes) == [Type |-> type, Runes |-> runes]
NoKey == KeyMsg("none", <<>>)
\* The history of the key that ends the session: the key message, and for
\* the confirm key while browsing the path of the row under the cursor.
QuitKey(msg, path) == [key |-> msg, path |-> path]
NoQuitKey == QuitKey(NoKey, <<>>)

\* The characters the model types: the commands, letters of the stored
\* names and paths, and a character of two bytes.
RuneKeys == {"q", "e", "d", "j", "k", "x", "y", "X", RuneEAcute}
\* Key types Update has no case for.
OtherTypes == {"KeyTab"}
\* The key types of the model.
KeyTypes == {"KeyEnter", "KeyEsc", "KeyBackspace", "KeySpace", "KeyUp", "KeyDown",
             "KeyCtrlC", "KeyRunes"} \cup OtherTypes

\* The history of edit mode before edit mode was ever entered.
NoEntry == [bookmarks |-> <<>>, disk |-> DocMissing, idx |-> -1, pc |-> "start"]

\* The three records of the store the sessions start from, in the order on disk.
RecA == Bookmark(<<"/", "y">>, <<>>, 0)
RecB == Bookmark(<<"/", "x">>, <<"Y">>, 2)
RecC == Bookmark(<<"/", "q">>, <<"q", "X">>, 2)

\* A document whose one record has a number where the path belongs:
\* {"bookmarks": [{"path": 5, "name": "Y", "count": 1}]}
DocBadPath == DocJSON(<<JObject(JNum(5), JStr(<<"Y">>), JNum(1))>>)

\* The documents a session may find.
SessionDocs == {DocMissing, Marshal(<<RecA, RecB, RecC>>), Marshal(<<RecA>>), DocBadPath}

\* Update handles one key message.  The program runs until the QuitMsg of a
\* returned tea.Quit is delivered: a key read before that (typed or pasted
\* behind the quitting key) is handled too.  saveConfig is called inside
\* Update, so no key is handled while its file is open.
Handles(msg) ==
    /\ pc \in {"running", "quit"}
    /\ ~io.open
    /\ nkeys < MaxKeys
    /\ nkeys' = nkeys + 1
    /\ lastKey' = msg
    /\ quitKey' = IF pc = "quit" THEN quitKey
                  ELSE QuitKey(msg, IF ~editing /\ msg.Type = "KeyEnter" /\ Len(filtered) > 0
                                    THEN bookmarks[filtered[cursor + 1] + 1].Path
                                    ELSE <<>>)
    /\ UNCHANGED <<stdout, arg, res>>

\* The history of edit mode: a key handled while editing is remembered.
EditHistory(msg) ==
    /\ typed' = Append(typed, msg)
    /\ UNCHANGED entry

\* A key handled while browsing, other than the "e" that enters edit mode:
\* the keys of the last edit are forgotten.
BrowseHistory ==
    /\ typed' = <<>>
    /\ UNCHANGED entry

\* initialModel(): load, sort, filter with the empty filter, cursor 0.
InitialModel ==
    /\ pc = "start"
    /\ pc' = "running"
    /\ bookmarks' = sortBookmarks(loadConfig(disk))
    /\ filtered' = filterBookmarks(bookmarks', <<>>)
    /\ cursor' = 0
    /\ filter' = <<>>
    /\ editing' = FALSE
    /\ editValue' = <<>>
    /\ selectedPath' = <<>>
    /\ io' = NoSave
    /\ UNCHANGED <<disk, stdout, nkeys, lastKey, quitKey, typed, entry, arg, res>>

\* Mutant of EditEnter: a failed save takes the rename back.
EditEnter_RevertsOnError ==
    \E outcome \in SaveOutcomes :
        /\ editing
        /\ Handles(KeyMsg("KeyEnter", <<>>))
        /\ EditHistory(KeyMsg("KeyEnter", <<>>))
        /\ IF Len(filtered) > 0
           THEN LET idx == filtered[cursor + 1]
                    renamed == [bookmarks EXCEPT ![idx + 1].Name = editValue]
                IN  /\ bookmarks' = IF outcome = "ok" THEN renamed ELSE bookmarks
                    /\ disk' = OpenFile(disk, outcome)
                    /\ io' = Saved(renamed, outcome)
           ELSE /\ outcome = "ok"
                /\ io' = NoSave
                /\ UNCHANGED <<bookmarks, disk>>
        /\ editing' = FALSE
        /\ editValue' = <<>>
        /\ UNCHANGED <<pc, filtered, cursor, filter, selectedPath>>

\* Update, editing, case tea.KeyEnter: the name is set and the list saved.
EditEnter ==
    \E outcome \in SaveOutcomes :
        /\ editing
        /\ Handles(KeyMsg("KeyEnter", <<>>))
        /\ EditHistory(KeyMsg("KeyEnter", <<>>))
        /\ IF Len(filtered) > 0
           THEN LET idx == filtered[cursor + 1] IN
                /\ bookmarks' = [bookmarks EXCEPT ![idx + 1].Name = editValue]
                /\ disk' = OpenFile(disk, outcome)
                /\ io' = Saved(bookmarks', outcome)
           ELSE /\ outcome = "ok"
                /\ io' = NoSave
                /\ UNCHANGED <<bookmarks, disk>>
        /\ editing' = FALSE
        /\ editValue' = <<>>
        /\ UNCHANGED <<pc, filtered, cursor, filter, selectedPath>>

\* Mutant of EditEsc: the cancel case falls through to the commit.
EditEsc_Commits ==
    /\ editing
    /\ Handles(KeyMsg("KeyEsc", <<>>))
    /\ EditHistory(KeyMsg("KeyEsc", <<>>))
    /\ bookmarks' = IF Len(filtered) > 0
                    THEN [bookmarks EXCEPT ![filtered[cursor + 1] + 1].Name = editValue]
                    ELSE bookmarks
    /\ disk' = OpenFile(disk, "ok")
    /\ io' = Saved(bookmarks', "ok")
    /\ editing' = FALSE
    /\ editValue' = <<>>
    /\ UNCHANGED <<pc, filtered, cursor, filter, selectedPath>>

\* Update, editing, case tea.KeyEsc
EditEsc ==
    /\ editing
    /\ Handles(KeyMsg("KeyEsc", <<>>))
    /\ EditHistory(KeyMsg("KeyEsc", <<>>))
    /\ editing' = FALSE
    /\ editValue' = <<>>
    /\ io' = NoSave
    /\ UNCHANGED <<disk, pc, bookmarks, filtered, cursor, filter, selectedPath>>

\* Update, editing, case tea.KeyBackspace
EditBackspace ==
    /\ editing
    /\ Handles(KeyMsg("KeyBackspace", <<>>))
    /\ EditHistory(KeyMsg("KeyBackspace", <<>>))
    /\ editValue' = IF Len(editValue) > 0
                    THEN Slice(editValue, 1, Len(editValue) - 1)
                    ELSE editValue
    /\ io' = NoSave
    /\ UNCHANGED <<disk, pc, bookmarks, filtered, cursor, filter, editing, selectedPath>>

\* Update, editing, case tea.KeySpace
EditSpace ==
    /\ editing
    /\ Handles(KeyMsg("KeySpace", <<>>))
    /\ EditHistory(KeyMsg("KeySpace", <<>>))
    /\ editValue' = editValue \o <<" ">>
    /\ io' = NoSave
    /\ UNCHANGED <<disk, pc, bookmarks, filtered, cursor, filter, editing, selectedPath>>

\* Mutant of EditDefault: the arrow keys move the cursor while editing.
EditDefault_Navigates ==
    \E type \in KeyTypes \ {"KeyEnter", "KeyEsc", "KeyBackspace", "KeySpace"} :
    \E r \in IF type = "KeyRunes" THEN {<<c>> : c \in RuneKeys} ELSE {<<>>} :
        /\ editing
        /\ Handles(KeyMsg(type, r))
        /\ EditHistory(KeyMsg(type, r))
        /\ editValue' = IF type = "KeyRunes" THEN editValue \o String(r) ELSE editValue
        /\ cursor' = CASE type = "KeyDown" /\ cursor < Len(filtered) - 1 -> cursor + 1
                        [] type = "KeyUp" /\ cursor > 0 -> cursor - 1
                        [] OTHER -> cursor
        /\ io' = NoSave
        /\ UNCHANGED <<disk, pc, bookmarks, filtered, filter, editing, selectedPath>>

\* Update, editing, default: runes are appended, any other key is dropped.
EditDefault ==
    \E type \in KeyTypes \ {"KeyEnter", "KeyEsc", "KeyBackspace", "KeySpace"} :
    \E r \in IF type = "KeyRunes" THEN {<<c>> : c \in RuneKeys} ELSE {<<>>} :
        /\ editing
        /\ Handles(KeyMsg(type, r))
        /\ EditHistory(KeyMsg(type, r))
        /\ editValue' = IF type = "KeyRunes" THEN editValue \o String(r) ELSE editValue
        /\ io' = NoSave
        /\ UNCHANGED <<disk, pc, bookmarks, filtered, cursor, filter, editing, selectedPath>>

\* Update, browsing, case tea.KeyCtrlC
BrowseCtrlC ==
    /\ ~editing
    /\ Handles(KeyMsg("KeyCtrlC", <<>>))
    /\ BrowseHistory
    /\ pc' = "quit"
    /\ io' = NoSave
    /\ UNCHANGED <<disk, bookmarks, filtered, cursor, filter, editing, editValue, selectedPath>>

\* Mutant of BrowseEsc: the cancel key quits whatever the filter is.
BrowseEsc_AlwaysQuits ==
    /\ ~editing
    /\ Handles(KeyMsg("KeyEsc", <<>>))
    /\ BrowseHistory
    /\ pc' = "quit"
    /\ io' = NoSave
    /\ UNCHANGED <<disk, bookmarks, filtered, cursor, filter, editing, editValue, selectedPath>>

\* Update, browsing, case tea.KeyEsc: clears the filter, or quits.
BrowseEsc ==
    /\ ~editing
    /\ Handles(KeyMsg("KeyEsc", <<>>))
    /\ BrowseHistory
    /\ IF filter # <<>>
       THEN /\ filter' = <<>>
            /\ filtered' = filterBookmarks(bookmarks, <<>>)
            /\ cursor' = 0
            /\ UNCHANGED pc
       ELSE /\ pc' = "quit"
            /\ UNCHANGED <<filter, filtered, cursor>>
    /\ io' = NoSave
    /\ UNCHANGED <<disk, bookmarks, editing, editValue, selectedPath>>

\* Update, browsing, case tea.KeyUp
BrowseUp ==
    /\ ~editing
    /\ Handles(KeyMsg("KeyUp", <<>>))
    /\ BrowseHistory
    /\ cursor' = IF cursor > 0 THEN cursor - 1 ELSE cursor
    /\ io' = NoSave
    /\ UNCHANGED <<disk, pc, bookmarks, filtered, filter, editing, editValue, selectedPath>>

\* Update, browsing, case tea.KeyDown
BrowseDown ==
    /\ ~editing
    /\ Handles(KeyMsg("KeyDown", <<>>))
    /\ BrowseHistory
    /\ cursor' = IF cursor < Len(filtered) - 1 THEN cursor + 1 ELSE cursor
    /\ io' = NoSave
    /\ UNCHANGED <<disk, pc, bookmarks, filtered, filter, editing, editValue, selectedPath>>

\* Mutant of BrowseEnter: the cursor is used as the index into bookmarks.
BrowseEnter_CursorIndex ==
    \E outcome \in SaveOutcomes :
        /\ ~editing
        /\ Handles(KeyMsg("KeyEnter", <<>>))
        /\ BrowseHistory
        /\ IF Len(filtered) > 0
           THEN LET idx == cursor IN
                /\ bookmarks' = [bookmarks EXCEPT ![idx + 1].Count = @ + 1]
                /\ disk' = OpenFile(disk, outcome)
                /\ io' = Saved(bookmarks', outcome)
                /\ selectedPath' = bookmarks'[idx + 1].Path
                /\ pc' = "quit"
           ELSE /\ outcome = "ok"
                /\ io' = NoSave
                /\ UNCHANGED <<bookmarks, disk, selectedPath, pc>>
        /\ UNCHANGED <<filtered, cursor, filter, editing, editValue>>

\* Update, browsing, case tea.KeyEnter: the selected record's count is
\* incremented, the list saved, its path selected, and tea.Quit returned.
BrowseEnter ==
    \E outcome \in SaveOutcomes :
        /\ ~editing
        /\ Handles(KeyMsg("KeyEnter", <<>>))
        /\ BrowseHistory
        /\ IF Len(filtered) > 0
           THEN LET idx == filtered[cursor + 1] IN
                /\ bookmarks' = [bookmarks EXCEPT ![idx + 1].Count = @ + 1]
                /\ disk' = OpenFile(disk, outcome)
                /\ io' = Saved(bookmarks', outcome)
                /\ selectedPath' = bookmarks'[idx + 1].Path
                /\ pc' = "quit"
           ELSE /\ outcome = "ok"
                /\ io' = NoSave
                /\ UNCHANGED <<bookmarks, disk, selectedPath, pc>>
        /\ UNCHANGED <<filtered, cursor, filter, editing, editValue>>

\* Mutant of BrowseBackspace: the cursor is left where it was.
BrowseBackspace_KeepsCursor ==
    /\ ~editing
    /\ Handles(KeyMsg("KeyBackspace", <<>>))
    /\ BrowseHistory
    /\ IF Len(filter) > 0
       THEN /\ filter' = Slice(filter, 1, Len(filter) - 1)
            /\ filtered' = filterBookmarks(bookmarks, filter')
            /\ cursor' = IF cursor < Len(filtered') THEN cursor ELSE 0
       ELSE UNCHANGED <<filter, filtered, cursor>>
    /\ io' = NoSave
    /\ UNCHANGED <<disk, pc, bookmarks, editing, editValue, selectedPath>>

\* Update, browsing, case tea.KeyBackspace
BrowseBackspace ==
    /\ ~editing
    /\ Handles(KeyMsg("KeyBackspace", <<>>))
    /\ BrowseHistory
    /\ IF Len(filter) > 0
       THEN /\ filter' = Slice(filter, 1, Len(filter) - 1)
            /\ filtered' = filterBookmarks(bookmarks, filter')
            /\ cursor' = 0
       ELSE UNCHANGED <<filter, filtered, cursor>>
    /\ io' = NoSave
    /\ UNCHANGED <<disk, pc, bookmarks, editing, editValue, selectedPath>>

\* The single-key commands of case tea.KeyRunes.
Commands == {<<"q">>, <<"e">>, <<"d">>, <<"j">>, <<"k">>}

\* Mutant of IsCommand: the command characters are commands while filtering too.
IsCommand_Always(r) == r \in Commands

\* Whether Update takes the runes as a command: only when not filtering.
IsCommand(r) == filter = <<>> /\ r \in Commands

\* Update, browsing, case tea.KeyRunes, "q" with no filter
RunesQuit ==
    /\ ~editing
    /\ IsCommand(<<"q">>)
    /\ Handles(KeyMsg("KeyRunes", <<"q">>))
    /\ BrowseHistory
    /\ pc' = "quit"
    /\ io' = NoSave
    /\ UNCHANGED <<disk, bookmarks, filtered, cursor, filter, editing, editValue, selectedPath>>

\* Mutant of RunesEdit: the edit buffer starts empty.
RunesEdit_EmptyBuffer ==
    /\ ~editing
    /\ IsCommand(<<"e">>)
    /\ Handles(KeyMsg("KeyRunes", <<"e">>))
    /\ IF Len(filtered) > 0
       THEN LET idx == filtered[cursor + 1] IN
            /\ editing' = TRUE
            /\ editValue' = <<>>
            /\ typed' = <<>>
            /\ entry' = [bookmarks |-> bookmarks, disk |-> disk, idx |-> idx, pc |-> pc]
       ELSE /\ typed' = <<>>
            /\ UNCHANGED <<editing, editValue, entry>>
    /\ io' = NoSave
    /\ UNCHANGED <<disk, pc, bookmarks, filtered, cursor, filter, selectedPath>>

\* Update, browsing, case tea.KeyRunes, "e" with no filter: edit mode is
\* entered with the selected record's name in the edit buffer.
RunesEdit ==
    /\ ~editing
    /\ IsCommand(<<"e">>)
    /\ Handles(KeyMsg("KeyRunes", <<"e">>))
    /\ IF Len(filtered) > 0
       THEN LET idx == filtered[cursor + 1] IN
            /\ editing' = TRUE
            /\ editValue' = bookmarks[idx + 1].Name
            /\ typed' = <<>>
            /\ entry' = [bookmarks |-> bookmarks, disk |-> disk, idx |-> idx, pc |-> pc]
       ELSE /\ typed' = <<>>
            /\ UNCHANGED <<editing, editValue, entry>>
    /\ io' = NoSave
    /\ UNCHANGED <<disk, pc, bookmarks, filtered, cursor, filter, selectedPath>>

\* append(m.bookmarks[:idx], m.bookmarks[idx+1:]...)
RemoveAt(bs, idx) == Slice(bs, 1, idx) \o Slice(bs, idx + 2, Len(bs))

\* Mutant of RunesDelete: the record removed is the first of the list.
RunesDelete_Head ==
    \E outcome \in SaveOutcomes :
        /\ ~editing
        /\ IsCommand(<<"d">>)
        /\ Handles(KeyMsg("KeyRunes", <<"d">>))
        /\ BrowseHistory
        /\ IF Len(filtered) > 0
           THEN /\ bookmarks' = RemoveAt(bookmarks, 0)
                /\ disk' = OpenFile(disk, outcome)
                /\ io' = Saved(bookmarks', outcome)
                /\ filtered' = filterBookmarks(bookmarks', filter)
                /\ cursor' = IF cursor >= Len(filtered') /\ cursor > 0
                             THEN cursor - 1
                             ELSE cursor
           ELSE /\ outcome = "ok"
                /\ io' = NoSave
                /\ UNCHANGED <<bookmarks, disk, filtered, cursor>>
        /\ UNCHANGED <<pc, filter, editing, editValue, selectedPath>>

\* Mutant of RunesDelete: the cursor is left where it was.
RunesDelete_NoClamp ==
    \E outcome \in SaveOutcomes :
        /\ ~editing
        /\ IsCommand(<<"d">>)
        /\ Handles(KeyMsg("KeyRunes", <<"d">>))
        /\ BrowseHistory
        /\ IF Len(filtered) > 0
           THEN LET idx == filtered[cursor + 1] IN
                /\ bookmarks' = RemoveAt(bookmarks, idx)
                /\ disk' = OpenFile(disk, outcome)
                /\ io' = Saved(bookmarks', outcome)
                /\ filtered' = filterBookmarks(bookmarks', filter)
                /\ cursor' = cursor
           ELSE /\ outcome = "ok"
                /\ io' = NoSave
                /\ UNCHANGED <<bookmarks, disk, filtered, cursor>>
        /\ UNCHANGED <<pc, filter, editing, editValue, selectedPath>>

\* Mutant of RunesDelete: filtered is patched, the deleted row cut out of
\* it, and not recomputed.
RunesDelete_Patch ==
    \E outcome \in SaveOutcomes :
        /\ ~editing
        /\ IsCommand(<<"d">>)
        /\ Handles(KeyMsg("KeyRunes", <<"d">>))
        /\ BrowseHistory
        /\ IF Len(filtered) > 0
           THEN LET idx == filtered[cursor + 1] IN
                /\ bookmarks' = RemoveAt(bookmarks, idx)
                /\ disk' = OpenFile(disk, outcome)
                /\ io' = Saved(bookmarks', outcome)
                /\ filtered' = RemoveAt(filtered, cursor)
                /\ cursor' = IF cursor >= Len(filtered') /\ cursor > 0
                             THEN cursor - 1
                             ELSE cursor
           ELSE /\ outcome = "ok"
                /\ io' = NoSave
                /\ UNCHANGED <<bookmarks, disk, filtered, cursor>>
        /\ UNCHANGED <<pc, filter, editing, editValue, selectedPath>>

\* Update, browsing, case tea.KeyRunes, "d" with no filter: the selected
\* record is removed, the list saved, filtered recomputed, the cursor clamped.
RunesDelete ==
    \E outcome \in SaveOutcomes :
        /\ ~editing
        /\ IsCommand(<<"d">>)
        /\ Handles(KeyMsg("KeyRunes", <<"d">>))
        /\ BrowseHistory
        /\ IF Len(filtered) > 0
           THEN LET idx == filtered[cursor + 1] IN
                /\ bookmarks' = RemoveAt(bookmarks, idx)
                /\ disk' = OpenFile(disk, outcome)
                /\ io' = Saved(bookmarks', outcome)
                /\ filtered' = filterBookmarks(bookmarks', filter)
                /\ cursor' = IF cursor >= Len(filtered') /\ cursor > 0
                             THEN cursor - 1
                             ELSE cursor
           ELSE /\ outcome = "ok"
                /\ io' = NoSave
                /\ UNCHANGED <<bookmarks, disk, filtered, cursor>>
        /\ UNCHANGED <<pc, filter, editing, editValue, selectedPath>>

\* Update, browsing, case tea.KeyRunes, "j" with no filter
RunesDown ==
    /\ ~editing
    /\ IsCommand(<<"j">>)
    /\ Handles(KeyMsg("KeyRunes", <<"j">>))
    /\ BrowseHistory
    /\ cursor' = IF cursor < Len(filtered) - 1 THEN cursor + 1 ELSE cursor
    /\ io' = NoSave
    /\ UNCHANGED <<disk, pc, bookmarks, filtered, filter, editing, editValue, selectedPath>>

\* Update, browsing, case tea.KeyRunes, "k" with no filter
RunesUp ==
    /\ ~editing
    /\ IsCommand(<<"k">>)
    /\ Handles(KeyMsg("KeyRunes", <<"k">>))
    /\ BrowseHistory
    /\ cursor' = IF cursor > 0 THEN cursor - 1 ELSE cursor
    /\ io' = NoSave
    /\ UNCHANGED <<disk, pc, bookmarks, filtered, filter, editing, editValue, selectedPath>>

\* Update, browsing, case tea.KeyRunes, otherwise: the runes are added to
\* the filter, filtered is recomputed and the cursor reset.
RunesFilter ==
    \E c \in RuneKeys :
        /\ ~editing
        /\ ~IsCommand(<<c>>)
        /\ Handles(KeyMsg("KeyRunes", <<c>>))
        /\ BrowseHistory
        /\ filter' = filter \o String(<<c>>)
        /\ filtered' = filterBookmarks(bookmarks, filter')
        /\ cursor' = 0
        /\ io' = NoSave
        /\ UNCHANGED <<disk, pc, bookmarks, editing, editValue, selectedPath>>

\* Update, browsing, a key type the switch has no case for (KeySpace too).
BrowseOther ==
    \E type \in OtherTypes \cup {"KeySpace"} :
        /\ ~editing
        /\ Handles(KeyMsg(type, <<>>))
        /\ BrowseHistory
        /\ io' = NoSave
        /\ UNCHANGED <<disk, pc, bookmarks, filtered, cursor, filter, editing, editValue,
                       selectedPath>>

\* saveConfig called by Update, after the open: the write and the close of
\* os.WriteFile.
WriteFile ==
    /\ io.open
    /\ disk' = Write(disk, io.arg, io.outcome)
    /\ io' = [io EXCEPT !.open = FALSE]
    /\ UNCHANGED <<pc, bookmarks, filtered, cursor, filter, editing, editValue,
                   selectedPath, stdout, nkeys, lastKey, quitKey, typed, entry, arg, res>>

\* The QuitMsg is delivered, p.Run() returns, and main prints the selected
\* path, if any.
Exit ==
    /\ pc = "quit"
    /\ ~io.open
    /\ pc' = "exited"
    /\ stdout' = IF selectedPath # <<>> THEN Append(stdout, selectedPath) ELSE stdout
    /\ UNCHANGED <<disk, bookmarks, filtered, cursor, filter, editing, editValue,
                   selectedPath, io, nkeys, lastKey, quitKey, typed, entry, arg, res>>

\* The state of the process before initialModel() has run.
Init ==
    /\ disk \in SessionDocs
    /\ pc = "start"
    /\ bookmarks = <<>>
    /\ filtered = <<>>
    /\ cursor = 0
    /\ filter = <<>>
    /\ editing = FALSE
    /\ editValue = <<>>
    /\ selectedPath = <<>>
    /\ stdout = <<>>
    /\ io = NoSave
    /\ nkeys = 0
    /\ lastKey = NoKey
    /\ quitKey = NoQuitKey
    /\ typed = <<>>
    /\ entry = NoEntry
    /\ arg = <<>>
    /\ res = <<>>

Next ==
    \/ InitialModel
    \/ EditEnter
    \/ EditEsc
    \/ EditBackspace
    \/ EditSpace
    \/ EditDefault
    \/ BrowseCtrlC
    \/ BrowseEsc
    \/ BrowseUp
    \/ BrowseDown
    \/ BrowseEnter
    \/ BrowseBackspace
    \/ RunesQuit
    \/ RunesEdit
    \/ RunesDelete
    \/ RunesDown
    \/ RunesUp
    \/ RunesFilter
    \/ BrowseOther
    \/ WriteFile
    \/ Exit

Spec == Init /\ [][Next]_vars

----------------------------------------------------------------------------
(* sortBookmarks on its own: every list of up to SmallSort records with
   counts up to MaxCount, and every list of MaxSortLen records with counts 0
   and 1.  The i-th record of an input has the i-th letter as its path. *)

\* The longest list sorted with every count up to MaxCount.
SmallSort == 4
\* The largest usage count of those lists.
MaxCount == 3

Letters == <<"a", "b", "c", "d", "e", "f", "g", "h", "i", "j", "k", "l", "m", "n">>

SortList(counts) == [i \in 1..Len(counts) |-> Bookmark(<<"/", Letters[i]>>, <<>>, counts[i])]

SortInputs ==
    {SortList(c) : c \in UNION {[1..n -> 0..MaxCount] : n \in 0..SmallSort}}
    \cup {SortList(c) : c \in [1..MaxSortLen -> {0, 1}]}

\* The variables of the selector, for the operations that run without one.
NoSession ==
    /\ bookmarks = <<>>
    /\ filtered = <<>>
    /\ cursor = 0
    /\ filter = <<>>
    /\ editing = FALSE
    /\ editValue = <<>>
    /\ selectedPath = <<>>
    /\ nkeys = 0
    /\ lastKey = NoKey
    /\ quitKey = NoQuitKey
    /\ typed = <<>>
    /\ entry = NoEntry

SessionVars == <<bookmarks, filtered, cursor, filter, editing, editValue, selectedPath,
                 nkeys, lastKey, quitKey, typed, entry>>

InitSort ==
    /\ NoSession
    /\ pc = "sort"
    /\ disk = DocMissing
    /\ stdout = <<>>
    /\ io = NoSave
    /\ arg \in SortInputs
    /\ res = <<>>

\* sortBookmarks(config.Bookmarks)
SortBookmarks ==
    /\ pc = "sort"
    /\ pc' = "sorted"
    /\ res' = sortBookmarks(arg)
    /\ UNCHANGED <<disk, stdout, io, arg>>
    /\ UNCHANGED SessionVars

SpecSort == InitSort /\ [][SortBookmarks]_vars

----------------------------------------------------------------------------
(* The store on its own: saveConfig of a list over a document, loadConfig. *)

\* The records the store is given: paths and names with and without an
\* invalid byte, the empty name, the count 0.
StorePaths == {<<"/", "w">>, <<"/", InvalidByte>>}
StoreNames == {<<>>, <<"W">>, <<InvalidByte>>}
StoreCounts == {0, 5}
StoreRecords ==
    {Bookmark(p, n, c) : p \in StorePaths, n \in StoreNames, c \in StoreCounts}

\* The longest list saved.
MaxSaved == 2

StoreInputs == UNION {[1..n -> StoreRecords] : n \in 0..MaxSaved}

\* The documents loadConfig may find: none; an empty file; text that breaks
\* after a well-formed record; valid documents; documents that are valid
\* JSON in which a later member or element has the wrong type.
GoodA == MarshalBookmark(RecA)
GoodB == MarshalBookmark(RecB)
LoadDocs ==
    { DocMissing,
      DocSyntax(<<>>),
      DocSyntax(<<GoodA>>),
      DocJSON(<<>>),
      DocJSON(<<GoodA, GoodB>>),
      DocJSON(<<GoodA, JObject(JStr(<<"/", "x">>), JAbsent, JStr(<<"2">>))>>),
      DocJSON(<<GoodA, JObject(JNum(7), JStr(<<"W">>), JNum(2))>>),
      DocJSON(<<GoodA, JScalar>>),
      DocJSON(<<JObject(JStr(<<"/", InvalidByte>>), JAbsent, JNum(1))>>) }

InitStore ==
    /\ NoSession
    /\ pc = "store"
    /\ disk \in LoadDocs
    /\ stdout = <<>>
    /\ io = NoSave
    /\ arg \in StoreInputs
    /\ res = <<>>

\* saveConfig(Config{Bookmarks: arg}), up to the open of the file; WriteFile
\* is the rest of it.
Save ==
    \E outcome \in SaveOutcomes :
        /\ pc = "store"
        /\ pc' = "saved"
        /\ disk' = OpenFile(disk, outcome)
        /\ io' = Saved(arg, outcome)
        /\ UNCHANGED <<stdout, arg, res>>
        /\ UNCHANGED SessionVars

\* loadConfig().Bookmarks, of the document as found or as saved
Load ==
    /\ pc \in {"store", "saved"}
    /\ ~io.open
    /\ pc' = "loaded"
    /\ res' = loadConfig(disk)
    /\ UNCHANGED <<disk, stdout, io, arg>>
    /\ UNCHANGED SessionVars

SpecStore == InitStore /\ [][Save \/ WriteFile \/ Load]_vars

----------------------------------------------------------------------------
(* bk add: addBookmark.  It is split where it blocks or where another
   process can see the file: at the read of the alias, between its loadConfig
   and its saveConfig, and inside os.WriteFile, between the open and the
   write. *)

\* The number of runs of bk add.
MaxAdds == 2

\* The working directories and the lines typed at the alias prompt (the
\* empty line is end of input).
Cwds == {<<"/", "w">>, <<"/", "x">>, <<"/", InvalidByte>>}
Lines == {<<>>, <<"\n">>, <<"W", "\n">>, <<" ", "k", " ", "\n">>, <<InvalidByte, "\n">>}

AddDocs == {DocMissing, Marshal(<<RecA>>), Marshal(<<RecB, RecA>>)}

\* The runs of bk add, of which the last may still be running: where it is
\* (phase), its directory, whether it reached the alias prompt, the line it
\* read there, the outcome of its saveConfig, its exit status and what it
\* printed; the number of runs started, and the paths appended by the runs
\* whose save succeeded, in the order of the saves.
NoAdd ==
    [phase |-> "idle", cwd |-> <<>>, prompted |-> FALSE, line |-> <<>>,
     outcome |-> "none", exit |-> 0, out |-> <<>>, runs |-> 0, added |-> <<>>]

\* A run of bk add that has got as far as phase.
AddRun(phase, cwd, prompted, code, out) ==
    [phase |-> phase, cwd |-> cwd, prompted |-> prompted, line |-> <<>>,
     outcome |-> "none", exit |-> code, out |-> out, runs |-> res.runs + 1,
     added |-> res.added]

InitAdd ==
    /\ NoSession
    /\ pc = "add"
    /\ disk \in AddDocs
    /\ stdout = <<>>
    /\ io = NoSave
    /\ arg = <<>>
    /\ res = NoAdd

\* A run of bk add starts when the last one has ended.
AddStarts ==
    /\ res.phase = "idle"
    /\ res.runs < MaxAdds
    /\ UNCHANGED <<disk, pc, stdout, io>>
    /\ UNCHANGED SessionVars

\* addBookmark when os.Getwd fails: exit status 1, nothing read or written.
AddNoCwd ==
    /\ AddStarts
    /\ arg' = <<>>
    /\ res' = AddRun("idle", <<>>, FALSE, 1, <<>>)

\* addBookmark when a loaded record has the path cwd: reported, nothing else.
AddExists ==
    \E cwd \in Cwds :
        LET config == loadConfig(disk) IN
        /\ AddStarts
        /\ \E i \in 1..Len(config) : config[i].Path = cwd
        /\ arg' = config
        /\ res' = AddRun("idle", cwd, FALSE, 0, << <<"Bookmark already exists: ", cwd>> >>)

\* addBookmark otherwise, up to the alias prompt: the list is loaded, the
\* prompt printed, and the run waits for a line.
AddPrompt ==
    \E cwd \in Cwds :
        LET config == loadConfig(disk) IN
        /\ AddStarts
        /\ \A i \in 1..Len(config) : config[i].Path # cwd
        /\ arg' = config
        /\ res' = AddRun("prompt", cwd, TRUE, 0,
                         << <<"Adding: ", cwd>>, <<"Alias (enter to skip): ">> >>)

\* Mutant of Appended: the new record is put in front of the loaded ones.
Appended_Prepends(config, cwd, line) ==
    <<Bookmark(cwd, TrimSpace(line), 0)>> \o config

\* The list addBookmark saves: the loaded one with the record of cwd, named
\* by the trimmed line, appended.
Appended(config, cwd, line) ==
    Append(config, Bookmark(cwd, TrimSpace(line), 0))

\* addBookmark from the line read at the prompt to the open of the file in
\* saveConfig; a failed save ends the run with exit status 1.
AddAppend ==
    \E line \in Lines, outcome \in SaveOutcomes :
        /\ res.phase = "prompt"
        /\ disk' = OpenFile(disk, outcome)
        /\ res' = [res EXCEPT !.phase = IF outcome = "error" THEN "idle" ELSE "writing",
                              !.line = line,
                              !.outcome = outcome,
                              !.exit = IF outcome = "error" THEN 1 ELSE 0]
        /\ UNCHANGED <<arg, pc, stdout, io>>
        /\ UNCHANGED SessionVars

\* addBookmark, the rest: the write and the close of os.WriteFile, and the
\* report.
AddWrite ==
    LET alias == TrimSpace(res.line)
        ok == res.outcome = "ok"
    IN  /\ res.phase = "writing"
        /\ disk' = Write(disk, Appended(arg, res.cwd, res.line), res.outcome)
        /\ res' = [res EXCEPT !.phase = "idle",
                              !.exit = IF ok THEN 0 ELSE 1,
                              !.out = IF ~ok THEN @
                                      ELSE IF alias # <<>>
                                           THEN Append(@, <<"Added bookmark: ", alias, res.cwd>>)
                                           ELSE Append(@, <<"Added bookmark: ", res.cwd>>),
                              !.added = IF ok THEN Append(@, res.cwd) ELSE @]
        /\ UNCHANGED <<arg, pc, stdout, io>>
        /\ UNCHANGED SessionVars

SpecAdd == InitAdd /\ [][AddNoCwd \/ AddExists \/ AddPrompt \/ AddAppend \/ AddWrite]_vars

----------------------------------------------------------------------------
(* The store shared by processes: runs of bk add and selector sessions, one
   after another or at the same time, on one document.  The selector's steps
   are those of Spec; a new selector may be started when the last one has
   exited. *)

\* The line typed at the alias prompt of the runs of bk add here.
SysLine == <<"\n">>

\* The number of keys handled by the selector sessions here.
MaxSysKeys == 3

InitSys ==
    /\ disk = DocMissing
    /\ pc = "start"
    /\ bookmarks = <<>>
    /\ filtered = <<>>
    /\ cursor = 0
    /\ filter = <<>>
    /\ editing = FALSE
    /\ editValue = <<>>
    /\ selectedPath = <<>>
    /\ stdout = <<>>
    /\ io = NoSave
    /\ nkeys = 0
    /\ lastKey = NoKey
    /\ quitKey = NoQuitKey
    /\ typed = <<>>
    /\ entry = NoEntry
    /\ arg = <<>>
    /\ res = NoAdd

\* The working directories of the runs of bk add here.
SysCwds == {<<"/", "w">>, <<"/", "x">>}

\* The steps of bk add with the directories and the line of the runs here.
AddExistsSys == AddExists /\ res'.cwd \in SysCwds

AddPromptSys == AddPrompt /\ res'.cwd \in SysCwds

AddAppendSys == AddAppend /\ res'.line = SysLine

\* bk is run again after the last selector has exited: a new process, which
\* has read and printed nothing yet.
Restart ==
    /\ pc = "exited"
    /\ nkeys < MaxSysKeys
    /\ pc' = "start"
    /\ bookmarks' = <<>>
    /\ filtered' = <<>>
    /\ cursor' = 0
    /\ filter' = <<>>
    /\ editing' = FALSE
    /\ editValue' = <<>>
    /\ selectedPath' = <<>>
    /\ stdout' = <<>>
    /\ io' = NoSave
    /\ lastKey' = NoKey
    /\ quitKey' = NoQuitKey
    /\ typed' = <<>>
    /\ entry' = NoEntry
    /\ UNCHANGED <<disk, nkeys, arg, res>>

\* The selector here gets the keys that write the store (confirm, d, e ...
\* confirm) and those needed to reach them and to leave: down, space in the
\* edit buffer, q; all the sessions together handle MaxSysKeys keys.
SysKeysLeft == nkeys < MaxSysKeys

BrowseDownSys == SysKeysLeft /\ BrowseDown

BrowseEnterSys == SysKeysLeft /\ BrowseEnter

RunesDeleteSys == SysKeysLeft /\ RunesDelete

RunesEditSys == SysKeysLeft /\ RunesEdit

EditSpaceSys == SysKeysLeft /\ EditSpace

EditEnterSys == SysKeysLeft /\ EditEnter

RunesQuitSys == SysKeysLeft /\ RunesQuit

NextSys ==
    \/ InitialModel
    \/ BrowseDownSys
    \/ BrowseEnterSys
    \/ RunesDeleteSys
    \/ RunesEditSys
    \/ EditSpaceSys
    \/ EditEnterSys
    \/ RunesQuitSys
    \/ WriteFile
    \/ Exit
    \/ AddExistsSys
    \/ AddPromptSys
    \/ AddAppendSys
    \/ AddWrite
    \/ Restart

SpecSys == InitSys /\ [][NextSys]_vars

----------------------------------------------------------------------------
(* The properties checked. *)

\* A step in which Update handles the key message k.
KeyStep(k) == pc \in {"running", "quit"} /\ nkeys' = nkeys + 1 /\ lastKey' = k
\* A step in which Update handles any key message.
AnyKeyStep == pc \in {"running", "quit"} /\ nkeys' = nkeys + 1
\* The step in which the saveConfig called for the key message k writes the
\* file it has opened.
WriteStep(k) == io.open /\ ~io'.open /\ lastKey = k

Rune(c) == KeyMsg("KeyRunes", <<c>>)
Key(type) == KeyMsg(type, <<>>)

\* sub occurs in s as a run of consecutive characters.
IsSubstring(sub, s) ==
    \E lo \in 1..(Len(s) + 1) : \E hi \in (lo - 1)..Len(s) : Slice(s, lo, hi) = sub

\* The sequence s with its k-th element left out.
Without(s, k) == [i \in 1..(Len(s) - 1) |-> IF i < k THEN s[i] ELSE s[i + 1]]

PathsOf(bs) == [i \in 1..Len(bs) |-> bs[i].Path]

\* C1: whenever filtered is non-empty, 0 <= cursor < len(filtered); deleting
\* the only row of a one-row view leaves cursor 0; the up key, and k as a
\* command, at cursor 0 leave the cursor where it is; the down key, and j as
\* a command, at the last row leave the cursor where it is.
C1_Clamp ==
    /\ (~editing /\ KeyStep(Rune("d")) /\ filter = <<>> /\ Len(filtered) = 1)
           => (cursor' = 0 /\ filtered' = <<>>)
    /\ (~editing /\ cursor = 0
          /\ (KeyStep(Key("KeyUp")) \/ (KeyStep(Rune("k")) /\ filter = <<>>)))
           => cursor' = cursor
    /\ (~editing /\ cursor = Len(filtered) - 1
          /\ (KeyStep(Key("KeyDown")) \/ (KeyStep(Rune("j")) /\ filter = <<>>)))
           => cursor' = cursor
C1_CursorInRange ==
    /\ [](Len(filtered) > 0 => (0 <= cursor /\ cursor < Len(filtered)))
    /\ [][C1_Clamp]_vars
\* The last of three rows was deleted and the cursor stepped back onto the
\* row that is now the last.
C1_Witness ==
    /\ lastKey = Rune("d")
    /\ io.saved
    /\ PathsOf(bookmarks) = <<RecB.Path, RecC.Path>>
    /\ Len(filtered) = 2
    /\ cursor = 1

\* C2: filtered is exactly the increasing sequence of the indices of the
\* current bookmarks whose lower-cased name or path contains the lower-cased
\* filter (every index when the filter is empty).
C2_Matches(i) ==
    \/ filter = <<>>
    \/ IsSubstring(ToLower(filter), ToLower(bookmarks[i + 1].Name))
    \/ IsSubstring(ToLower(filter), ToLower(bookmarks[i + 1].Path))
C2_FilteredExact ==
    /\ \A k \in 1..(Len(filtered) - 1) : filtered[k] < filtered[k + 1]
    /\ {filtered[k] : k \in 1..Len(filtered)}
           = {i \in 0..(Len(bookmarks) - 1) : C2_Matches(i)}
\* After a deletion the filter selects only the record now at index 1.
C2_Witness ==
    /\ Len(bookmarks) = 2
    /\ filter = <<"y">>
    /\ filtered = <<1>>

\* C3: the confirm key while browsing, with filtered non-empty, increments
\* the count of the record at filtered[cursor] by one and changes nothing
\* else of the list, calls saveConfig with the whole new list (the document
\* is that list when the write succeeds), sets the result to that record's
\* path, and quits.
C3_Select ==
    (~editing /\ KeyStep(Key("KeyEnter")) /\ Len(filtered) > 0) =>
        LET idx == filtered[cursor + 1] IN
        /\ Len(bookmarks') = Len(bookmarks)
        /\ \A i \in 1..Len(bookmarks) :
              /\ bookmarks'[i].Path = bookmarks[i].Path
              /\ bookmarks'[i].Name = bookmarks[i].Name
              /\ bookmarks'[i].Count = bookmarks[i].Count + (IF i = idx + 1 THEN 1 ELSE 0)
        /\ io'.saved
        /\ io'.arg = bookmarks'
        /\ selectedPath' = bookmarks[idx + 1].Path
        /\ pc' = "quit"
C3_Written ==
    (WriteStep(Key("KeyEnter")) /\ io.outcome = "ok") =>
        disk' = Marshal(bookmarks)
C3_SelectIncrements == [][C3_Select /\ C3_Written]_vars
\* A record was selected through a filter, at a row whose index in bookmarks
\* is not the row number, and the save succeeded.
C3_Witness ==
    /\ pc = "quit"
    /\ lastKey = Key("KeyEnter")
    /\ filter # <<>>
    /\ cursor = 1
    /\ filtered[cursor + 1] = 2
    /\ selectedPath = bookmarks[3].Path
    /\ io.outcome = "ok"
    /\ ~io.open

\* C4: sortBookmarks orders the records by descending count and keeps
\* records of equal count in the order they had, for every list.
C4_IndexIn(bs, b) == CHOOSE i \in 1..Len(bs) : bs[i].Path = b.Path
C4_StableSorted(out, in) ==
    /\ Len(out) = Len(in)
    /\ {out[i] : i \in 1..Len(out)} = {in[i] : i \in 1..Len(in)}
    /\ \A i, j \in 1..Len(out) :
          i < j => \/ out[i].Count > out[j].Count
                   \/ /\ out[i].Count = out[j].Count
                      /\ C4_IndexIn(in, out[i]) < C4_IndexIn(in, out[j])
C4_SortIsStable == pc = "sorted" => C4_StableSorted(res, arg)

\* C5: while the session runs, bookmarks is in non-increasing count order,
\* and a key message never reorders the records: the paths after it are the
\* paths before it, with at most one left out.
C5_OrderKept ==
    AnyKeyStep =>
        \/ PathsOf(bookmarks') = PathsOf(bookmarks)
        \/ \E k \in 1..Len(bookmarks) : PathsOf(bookmarks') = Without(PathsOf(bookmarks), k)
C5_UsageOrder ==
    /\ [](pc = "running" =>
             \A i \in 1..(Len(bookmarks) - 1) : bookmarks[i].Count >= bookmarks[i + 1].Count)
    /\ [][C5_OrderKept]_vars
\* The session runs on after a deletion with records of different counts.
C5_Witness ==
    /\ pc = "running"
    /\ lastKey = Rune("d")
    /\ Len(bookmarks) = 2
    /\ bookmarks[1].Count > bookmarks[2].Count

\* The keys handled in edit mode have not ended the session: it runs as it
\* did when edit mode was entered (a QuitMsg already on its way then may
\* have been delivered since).
EditKeptRunning == pc = entry.pc \/ (entry.pc = "quit" /\ pc = "exited")

\* The state right after e, "x", "y" and the confirm key.
C6_ConfirmedXY == ~editing /\ typed = <<Rune("x"), Rune("y"), Key("KeyEnter")>>
\* What the commit does besides setting the name: saveConfig is called with
\* the whole list (the document is that list when the write succeeds), the
\* session browses on, and nothing else of the list has changed.
C6_Frame ==
    /\ io.saved
    /\ io.arg = bookmarks
    /\ (io.outcome = "ok" /\ ~io.open) => disk = Marshal(bookmarks)
    /\ EditKeptRunning
    /\ Len(bookmarks) = Len(entry.bookmarks)
    /\ \A i \in 1..Len(bookmarks) :
          /\ bookmarks[i].Path = entry.bookmarks[i].Path
          /\ bookmarks[i].Count = entry.bookmarks[i].Count
          /\ i # entry.idx + 1 => bookmarks[i].Name = entry.bookmarks[i].Name
\* C6 as stated: after e, "x", "y", confirm the selected record's name is
\* exactly "xy".
C6_NameIsXY ==
    C6_ConfirmedXY => (bookmarks[entry.idx + 1].Name = <<"x", "y">> /\ C6_Frame)
\* C6 as amended: after e, "x", "y", confirm the selected record's name is
\* the name it had followed by "xy" (the edit buffer at confirm time), the
\* list is saved, the session browses on, and no other field changes.
C6_NameIsOldNameXY ==
    C6_ConfirmedXY =>
        /\ bookmarks[entry.idx + 1].Name = entry.bookmarks[entry.idx + 1].Name \o <<"x", "y">>
        /\ C6_Frame
\* A record that had a name was renamed by e, "x", "y", confirm and saved.
C6_Witness ==
    /\ C6_ConfirmedXY
    /\ entry.bookmarks[entry.idx + 1].Name # <<>>
    /\ io.outcome = "ok"
    /\ ~io.open

\* The cancel key was the last key handled in edit mode.
C7_Cancelled == typed # <<>> /\ typed[Len(typed)] = Key("KeyEsc")
\* C7: from the "e" that enters edit mode until the cancel key has been
\* handled, whatever was typed, bookmarks and the store document are what
\* they were when edit mode was entered and no save is made; once the cancel
\* key has been handled the session is browsing again: editing is false and
\* the edit buffer is empty.
C7_CancelKeepsAll ==
    /\ (editing \/ C7_Cancelled) =>
           /\ bookmarks = entry.bookmarks
           /\ disk = entry.disk
           /\ io = NoSave
           /\ EditKeptRunning
    /\ C7_Cancelled =>
           /\ editing = FALSE
           /\ editValue = <<>>
\* Edit mode was left by the cancel key after a character and a backspace.
C7_Witness ==
    /\ ~editing
    /\ Len(typed) = 3
    /\ typed[1].Type = "KeyRunes"
    /\ typed[2].Type = "KeyBackspace"
    /\ typed[3] = Key("KeyEsc")
    /\ bookmarks = entry.bookmarks
    /\ bookmarks # <<>>

\* C8: a successful save followed by load returns the saved list, for any
\* list of records.
C8_RoundTrip ==
    (pc = "loaded" /\ io.saved /\ io.outcome = "ok") => res = arg

\* C9: when the document is missing or fails to parse, load returns the
\* empty list.
C9_FailedLoadIsEmpty ==
    (pc = "loaded" /\ LoadFailed(disk)) => res = <<>>

\* C10: add in a directory whose path a stored record has writes nothing,
\* reads no alias and leaves the document as it is; otherwise it reads the
\* alias and, when the save succeeds, the stored list is the one it loaded
\* with the record {path = cwd, name = alias, count = 0} appended.
C10_Add ==
    /\ (pc = "add" /\ res'.runs = res.runs + 1 /\ res'.cwd # <<>>) =>
           LET before == loadConfig(disk) IN
           /\ disk' = disk
           /\ IF \E i \in 1..Len(before) : before[i].Path = res'.cwd
              THEN ~res'.prompted /\ res'.phase = "idle"
              ELSE res'.prompted /\ res'.phase = "prompt" /\ arg' = before
    /\ (pc = "add" /\ disk' # disk) => (res.prompted /\ res.phase \in {"prompt", "writing"})
    /\ (pc = "add" /\ res.phase = "writing" /\ res'.phase = "idle" /\ res.outcome = "ok") =>
           loadConfig(disk') = Append(arg, Bookmark(res.cwd, TrimSpace(res.line), 0))
C10_AddEffect == [][C10_Add]_vars

\* C11: the store starts with pairwise distinct paths; after any number of
\* runs of bk add, and in SpecSys after any interleaving of their steps with
\* those of selector sessions, the document holds at most one record for
\* each path.
C11_DistinctPaths ==
    LET stored == loadConfig(disk) IN
    \A i, j \in 1..Len(stored) : stored[i].Path = stored[j].Path => i = j

\* C12: when the selector has exited, standard output holds exactly the path
\* of the selected record if the session was ended by the confirm key
\* selecting a record, and nothing if it was ended any other way.
C12_Output ==
    pc = "exited" =>
        stdout = IF quitKey.key = Key("KeyEnter") THEN <<quitKey.path>> ELSE <<>>

\* The terminating transitions of the claim's list: q or the cancel key while
\* browsing with an empty filter, the confirm key while browsing with
\* filtered non-empty.
C13_Listed(k) ==
    /\ ~editing
    /\ \/ k \in {Rune("q"), Key("KeyEsc")} /\ filter = <<>>
       \/ k = Key("KeyEnter") /\ Len(filtered) > 0
\* The cancel key with a non-empty filter clears the filter and goes on.
C13_CancelClears ==
    (~editing /\ KeyStep(Key("KeyEsc")) /\ filter # <<>>) =>
        /\ pc' = pc
        /\ filter' = <<>>
        /\ filtered' = [i \in 1..Len(bookmarks) |-> i - 1]
        /\ cursor' = 0
\* C13 as stated: a key message ends the session exactly when it is one of
\* the listed terminating transitions; no other key in any state does, and
\* the cancel key with a non-empty filter clears the filter instead.
C13_OnlyListed ==
    [][/\ (pc = "running" /\ AnyKeyStep) => (pc' = "quit" <=> C13_Listed(lastKey'))
       /\ pc = "running" => pc' \in {"running", "quit"}
       /\ pc = "quit" => pc' \in {"quit", "exited"}
       /\ C13_CancelClears]_vars
\* C13 as amended: a key message ends the session exactly when it is one of
\* the listed terminating transitions or the interrupt key (Ctrl-C) while
\* browsing, whatever the filter; no key ends it while editing, and the
\* cancel key with a non-empty filter clears the filter instead.
C13_OnlyListedOrInterrupt ==
    [][/\ (pc = "running" /\ AnyKeyStep) =>
              (pc' = "quit" <=> \/ C13_Listed(lastKey')
                                \/ ~editing /\ lastKey' = Key("KeyCtrlC"))
       /\ pc = "running" => pc' \in {"running", "quit"}
       /\ pc = "quit" => pc' \in {"quit", "exited"}
       /\ C13_CancelClears]_vars
\* The session was ended by the interrupt key while a filter was set.
C13_Witness ==
    /\ pc = "quit"
    /\ lastKey = Key("KeyCtrlC")
    /\ filter # <<>>
    /\ selectedPath = <<>>

\* C14: d while browsing with an empty filter and filtered non-empty
\* removes exactly the record at filtered[cursor], the others kept as they
\* are and in order; saveConfig is called with the resulting list (the
\* document is that list when the write succeeds); filtered is recomputed
\* from the new list; the cursor is decremented by one exactly when it is
\* now >= len(filtered) and > 0, so it stays on the same row, which now
\* shows the following record, unless the last row was deleted.
C14_Delete ==
    (~editing /\ KeyStep(Rune("d")) /\ filter = <<>> /\ Len(filtered) > 0) =>
        LET idx == filtered[cursor + 1] IN
        /\ bookmarks' = Without(bookmarks, idx + 1)
        /\ io'.saved
        /\ io'.arg = bookmarks'
        /\ filter' = filter
        /\ filtered' = [i \in 1..Len(bookmarks') |-> i - 1]
        /\ cursor' = IF cursor >= Len(filtered') /\ cursor > 0 THEN cursor - 1 ELSE cursor
        /\ cursor < Len(filtered) - 1 =>
               /\ cursor' = cursor
               /\ bookmarks'[filtered'[cursor' + 1] + 1] = bookmarks[filtered[cursor + 2] + 1]
        /\ (cursor = Len(filtered) - 1 /\ cursor > 0) => cursor' = cursor - 1
        /\ pc' = pc
        /\ ~editing'
C14_Written ==
    (WriteStep(Rune("d")) /\ io.outcome = "ok") => disk' = Marshal(bookmarks)
C14_DeleteRemovesSelected == [][C14_Delete /\ C14_Written]_vars
\* The middle one of three records was deleted and written; the cursor is
\* still on the second row, which now shows the record that followed.
C14_Witness ==
    /\ lastKey = Rune("d")
    /\ PathsOf(bookmarks) = <<RecB.Path, RecA.Path>>
    /\ cursor = 1
    /\ io.outcome = "ok"
    /\ disk = Marshal(bookmarks)

\* After the step filtered is the view of the new list under the new filter.
C15_Recomputed ==
    /\ \A k \in 1..(Len(filtered') - 1) : filtered'[k] < filtered'[k + 1]
    /\ {filtered'[k] : k \in 1..Len(filtered')}
           = {i \in 0..(Len(bookmarks') - 1) :
                 \/ filter' = <<>>
                 \/ IsSubstring(ToLower(filter'), ToLower(bookmarks'[i + 1].Name))
                 \/ IsSubstring(ToLower(filter'), ToLower(bookmarks'[i + 1].Path))}
\* What backspace while browsing changes besides filter, filtered, cursor.
C15_Frame ==
    /\ bookmarks' = bookmarks
    /\ disk' = disk
    /\ io' = NoSave
    /\ pc' = pc
    /\ ~editing'
\* s without its last character: without the bytes of its last rune, as
\* utf8.DecodeLastRuneInString finds it (one byte when they encode no rune).
C15_WithoutLastCharacter(s) ==
    LET n == Len(s) IN
    IF n >= 3 /\ RuneWidth(Slice(s, n - 2, n)) = 3 THEN Slice(s, 1, n - 3)
    ELSE IF n >= 2 /\ RuneWidth(Slice(s, n - 1, n)) = 2 THEN Slice(s, 1, n - 2)
    ELSE Slice(s, 1, n - 1)
\* C15 as stated, its part about the filter: after backspace while
\* browsing, filter is the filter before without its last character if it
\* had one, and filtered is recomputed for it.
C15_BackspaceResets ==
    [][(~editing /\ KeyStep(Key("KeyBackspace"))) =>
           /\ filter' = IF Len(filter) > 0 THEN C15_WithoutLastCharacter(filter) ELSE filter
           /\ C15_Recomputed
           /\ C15_Frame]_vars
\* What the code does on backspace while browsing: with a non-empty filter
\* the last byte of filter is removed, filtered is recomputed for it and
\* cursor = 0; with an empty filter backspace changes nothing, the cursor
\* stays where it is.
C15_BackspaceResetsIfFiltering ==
    [][(~editing /\ KeyStep(Key("KeyBackspace"))) =>
           /\ IF Len(filter) > 0
              THEN /\ filter' = Slice(filter, 1, Len(filter) - 1)
                   /\ cursor' = 0
              ELSE /\ filter' = filter
                   /\ filtered' = filtered
                   /\ cursor' = cursor
           /\ C15_Recomputed
           /\ C15_Frame]_vars
\* Backspace was handled while browsing with an empty filter and the cursor
\* is still on the second row.
C15_Witness ==
    /\ ~editing
    /\ typed = <<>>
    /\ lastKey = Key("KeyBackspace")
    /\ filter = <<>>
    /\ cursor = 1
    /\ pc = "running"

\* The names of the records, in list order.
NamesOf(bs) == [i \in 1..Len(bs) |-> bs[i].Name]
\* With a non-empty filter a typed character, the command characters q, e,
\* d, j, k included, is appended to the filter, filtered is recomputed, the
\* cursor set to 0, and nothing else happens.
C16_Appended ==
    \A c \in RuneKeys :
        (~editing /\ filter # <<>> /\ KeyStep(Rune(c))) =>
            /\ filter' = filter \o String(<<c>>)
            /\ C15_Recomputed
            /\ cursor' = 0
            /\ bookmarks' = bookmarks
            /\ disk' = disk
            /\ io' = NoSave
            /\ pc' = pc
            /\ ~editing'
            /\ selectedPath' = selectedPath
\* With an empty filter q, e, d, j, k are commands: none is put into the
\* filter, q quits, e enters edit mode, d removes a record and j, k move the
\* cursor by at most one row (e and d when there is a row to act on).
C16_Commands ==
    \A c \in {"q", "e", "d", "j", "k"} :
        (~editing /\ filter = <<>> /\ KeyStep(Rune(c))) =>
            /\ filter' = <<>>
            /\ c = "q" => pc' = "quit"
            /\ (c = "e" /\ Len(filtered) > 0) => editing'
            /\ (c = "d" /\ Len(filtered) > 0) => Len(bookmarks') = Len(bookmarks) - 1
            /\ (c = "j" /\ cursor < Len(filtered) - 1) => cursor' = cursor + 1
            /\ (c = "k" /\ cursor > 0) => cursor' = cursor - 1
\* While the filter is non-empty no key removes or renames a record, and
\* the session is not editing.
C16_NoMutation ==
    (AnyKeyStep /\ filter # <<>>) =>
        /\ ~editing
        /\ PathsOf(bookmarks') = PathsOf(bookmarks)
        /\ NamesOf(bookmarks') = NamesOf(bookmarks)
\* C16: q, e, d, j, k act as commands only when the filter is empty; when it
\* is non-empty each is appended to the filter like any other character,
\* filtered recomputed and cursor 0; so while the filter is non-empty no
\* record is removed or renamed, j and k do not step the cursor, and q does
\* not quit.
C16_CommandsOnlyUnfiltered == [][C16_Appended /\ C16_Commands /\ C16_NoMutation]_vars
\* Under the filter "x", which shows two rows, d was typed as the third
\* key: it went into the filter and nothing was deleted.
C16_Witness ==
    /\ lastKey = Rune("d")
    /\ nkeys = 3
    /\ filter = <<"x", "d">>
    /\ Len(bookmarks) = 3
    /\ cursor = 0
    /\ pc = "running"

\* The session state: bookmarks, filtered, cursor, filter, editing, the
\* result and whether the session has ended.
C17_Session(bs, fd, cur, f, ed, result, ended) ==
    [bookmarks |-> bs, filtered |-> fd, cursor |-> cur, filter |-> f,
     editing |-> ed, result |-> result, ended |-> ended]
\* The session state a mutating key leaves when its save succeeds: the
\* rename commit, the selection, the deletion.
C17_OnSuccess(k) ==
    LET idx == filtered[cursor + 1] IN
    CASE editing /\ k = Key("KeyEnter") ->
             C17_Session([bookmarks EXCEPT ![idx + 1].Name = editValue],
                         filtered, cursor, filter, FALSE, selectedPath, pc = "quit")
      [] ~editing /\ k = Key("KeyEnter") ->
             C17_Session([bookmarks EXCEPT ![idx + 1].Count = @ + 1],
                         filtered, cursor, filter, FALSE, bookmarks[idx + 1].Path, TRUE)
      [] ~editing /\ k = Rune("d") ->
             LET left == Without(bookmarks, idx + 1)
                 view == [i \in 1..Len(left) |-> i - 1]
             IN  C17_Session(left, view,
                             IF cursor >= Len(view) /\ cursor > 0 THEN cursor - 1 ELSE cursor,
                             filter, FALSE, selectedPath, pc = "quit")
\* A mutating key was handled: saveConfig was called with the new list, and
\* whatever its outcome the session state is the one of the success case and
\* the session goes on (or, after a selection, ends with its result).
C17_Swallowed ==
    (AnyKeyStep /\ io'.saved) =>
        /\ lastKey' \in {Key("KeyEnter"), Rune("d")}
        /\ C17_Session(bookmarks', filtered', cursor', filter', editing', selectedPath',
                       pc' = "quit") = C17_OnSuccess(lastKey')
        /\ pc' \in {"running", "quit"}
        /\ io'.arg = bookmarks'
        /\ io'.outcome \in SaveOutcomes
        /\ io'.outcome = "error" => (disk' = disk /\ ~io'.open)
        /\ io'.outcome # "error" => (disk' = DocEmpty /\ io'.open)
\* The write of that save changes the document only, as its outcome says.
C17_Write ==
    (io.open /\ ~io'.open) =>
        /\ C17_Session(bookmarks', filtered', cursor', filter', editing', selectedPath',
                       pc' = "quit")
             = C17_Session(bookmarks, filtered, cursor, filter, editing, selectedPath,
                           pc = "quit")
        /\ pc' = pc
        /\ io.outcome = "ok" => disk' = Marshal(bookmarks)
        /\ io.outcome = "truncated" => disk' = DocEmpty
\* C17: a failing save on a rename commit, a deletion or a selection is
\* swallowed: the session state after it (bookmarks, filtered, cursor,
\* filter, editing, result, termination) is the state reached when the save
\* succeeds, and the session does not abort; only the document differs.
C17_FailedSaveSwallowed == [][C17_Swallowed /\ C17_Write]_vars
\* A record was deleted, the save failed, and the session runs on with two
\* records while the document still holds three.
C17_Witness ==
    /\ lastKey = Rune("d")
    /\ io.outcome = "error"
    /\ pc = "running"
    /\ Len(bookmarks) = 2
    /\ Len(loadConfig(disk)) = 3

\* The paths as the store holds them.
C18_Stored(paths) == [i \in 1..Len(paths) |-> CoerceUTF8(paths[i])]
\* The records of bs with the count c, in their order in bs.
C18_WithCount(bs, c) == SelectSeq(bs, LAMBDA b : b.Count = c)
\* C18 as stated: the records of the document are in the order in which
\* add appended them: of two records the one further up was added before
\* the other.
C18_InsertionOrder ==
    LET stored == PathsOf(loadConfig(disk))
        order == C18_Stored(res.added)
    IN  \A i, j \in 1..Len(stored) :
            i < j => \E a, b \in 1..Len(order) :
                         a < b /\ order[a] = stored[i] /\ order[b] = stored[j]
\* The number of records of bs equal to b.
C18_Occurrences(bs, b) == Cardinality({k \in 1..Len(bs) : bs[k] = b})
\* The list a selector starts with is the loaded one sorted by descending
\* count: the same records, each as often, counts not increasing.  Records
\* of equal count are in the order of the document when the list is no
\* longer than maxInsertion; for a longer list their order is not fixed
\* (sort.Slice is not stable, C4).
C18_Sorted ==
    (pc = "start" /\ pc' = "running") =>
        LET loaded == loadConfig(disk) IN
        /\ Len(bookmarks') = Len(loaded)
        /\ \A i \in 1..Len(loaded) :
              C18_Occurrences(bookmarks', loaded[i]) = C18_Occurrences(loaded, loaded[i])
        /\ \A i \in 1..(Len(bookmarks') - 1) : bookmarks'[i].Count >= bookmarks'[i + 1].Count
        /\ Len(loaded) <= maxInsertion =>
              \A i \in 1..Len(loaded) :
                  C18_WithCount(bookmarks', loaded[i].Count) = C18_WithCount(loaded, loaded[i].Count)
\* What each write puts into the document: a selector its list, in the
\* order it has in memory; add the list it loaded, in the order of the
\* document it loaded, and the new record after it; but when the file
\* already holds a longer text, written since the writer opened it, the
\* document is no valid JSON afterwards and loads as no record.
C18_WrittenAs(paths, data) ==
    IF disk.size <= data.size
    THEN PathsOf(loadConfig(disk')) = C18_Stored(paths)
    ELSE loadConfig(disk') = <<>>
C18_Written ==
    /\ disk' # disk => \/ AnyKeyStep /\ io'.open
                       \/ io.open /\ ~io'.open
                       \/ res.phase = "prompt" /\ res'.phase = "writing"
                       \/ res.phase = "writing" /\ res'.phase = "idle"
    /\ (io.open /\ ~io'.open /\ io.outcome = "ok") =>
           C18_WrittenAs(PathsOf(bookmarks), Marshal(bookmarks))
    /\ (res.phase = "writing" /\ res'.phase = "idle" /\ res.outcome = "ok") =>
           C18_WrittenAs(Append(PathsOf(arg), res.cwd),
                         Marshal(Append(arg, Bookmark(res.cwd, TrimSpace(res.line), 0))))
\* C18 as amended: the order of the records in the document is the order
\* of the list of the process that wrote it last: add writes the records it
\* loaded in the document's order and the new record last; a selector
\* writes its list, which is the loaded one sorted by descending count at
\* the start of the session (ties in document order for a list of at most
\* 12 records, in no fixed order for a longer one), less the records
\* deleted, and is never reordered by a key.
C18_WriterOrder == [][C18_Sorted /\ C5_OrderKept /\ C18_Written]_vars
\* "/w" was added before "/x", and the document lists "/x" first.
C18_Witness ==
    /\ res.added = << <<"/", "w">>, <<"/", "x">> >>
    /\ PathsOf(loadConfig(disk)) = << <<"/", "x">>, <<"/", "w">> >>

\* A save of the selector: the open empties the file, whatever it held, and
\* the write, when it succeeds and no other process has written since that
\* open, puts the selector's list there: the records the document held that
\* the selector did not have are gone.
C19_Overwrites ==
    /\ (AnyKeyStep /\ io'.open) => disk' = DocEmpty
    /\ (io.open /\ ~io'.open /\ io.outcome = "ok" /\ disk.size <= Marshal(bookmarks).size) =>
           /\ disk' = Marshal(bookmarks)
           /\ loadConfig(disk') = bookmarks
\* The selector reads the document when it starts and never again: while
\* it runs its list changes only in a key step, and then to a list made of
\* the list it had, whatever the document holds.
C19_NoReload ==
    /\ (pc = "running" /\ ~AnyKeyStep) => bookmarks' = bookmarks
    /\ (AnyKeyStep /\ ~io'.saved) => bookmarks' = bookmarks
    /\ (AnyKeyStep /\ io'.saved) => bookmarks' = C17_OnSuccess(lastKey').bookmarks
\* C19: last writer wins: when add has written the document while a
\* selector is open and the selector then selects, renames or deletes, the
\* document written is the selector's list and the record of add is lost;
\* the selector never reloads or merges the document.
C19_LastWriterWins == [][C19_Overwrites /\ C19_NoReload]_vars
\* The first key a selector got was the confirm key; its save put its list
\* into the document, and a path that add had written is in neither.
C19_Witness ==
    /\ nkeys = 1
    /\ lastKey = Key("KeyEnter")
    /\ pc = "quit"
    /\ io = [Saved(bookmarks, "ok") EXCEPT !.open = FALSE]
    /\ loadConfig(disk) = bookmarks
    /\ \E k \in 1..Len(res.added) :
          \A i \in 1..Len(bookmarks) : bookmarks[i].Path # CoerceUTF8(res.added[k])

\* While editing the filter is empty, filtered is the identity over a
\* non-empty bookmarks, and the cursor is on the record edit mode was
\* entered for, in the list as it was then.
C20_Editing ==
    editing =>
        /\ filter = <<>>
        /\ Len(filtered) > 0
        /\ filtered = [i \in 1..Len(bookmarks) |-> i - 1]
        /\ filtered[cursor + 1] = entry.idx
        /\ bookmarks = entry.bookmarks
\* A key handled while editing changes neither cursor, filter nor filtered,
\* nor the length or order of bookmarks, nor any field but the name of the
\* record at filtered[cursor].
C20_EditStep ==
    (editing /\ AnyKeyStep) =>
        /\ cursor' = cursor
        /\ filter' = filter
        /\ filtered' = filtered
        /\ Len(bookmarks') = Len(bookmarks)
        /\ \A i \in 1..Len(bookmarks) :
              /\ bookmarks'[i].Path = bookmarks[i].Path
              /\ bookmarks'[i].Count = bookmarks[i].Count
              /\ i # filtered[cursor + 1] + 1 => bookmarks'[i].Name = bookmarks[i].Name
        /\ (editing' \/ lastKey' = Key("KeyEsc")) => bookmarks' = bookmarks
        /\ lastKey' = Key("KeyEnter") =>
               bookmarks' = [entry.bookmarks EXCEPT ![entry.idx + 1].Name = editValue]
\* C20: editing implies the filter is empty and filtered is the non-empty
\* identity over bookmarks; no key handled while editing changes cursor,
\* filter, filtered, the length or order of bookmarks, or any field other
\* than the name of the record at filtered[cursor]; so a rename commit
\* changes the record that was under the cursor when edit mode was entered.
C20_EditTargetsEntry == []C20_Editing /\ [][C20_EditStep]_vars
\* Edit mode was entered on the second row, a key was typed and the confirm
\* key renamed that record.
C20_Witness ==
    /\ ~editing
    /\ Len(typed) = 2
    /\ typed[2] = Key("KeyEnter")
    /\ entry.idx = 1
    /\ cursor = 1
    /\ bookmarks[2].Name # entry.bookmarks[2].Name
    /\ bookmarks[1] = entry.bookmarks[1]

=============================================================================
